---- MODULE Spec2Model ----
(***************************************************************************)
(* Model of backend.py: a Flask service that stores uploaded image/video   *)
(* files under uploads/ and their metadata in the SQLite table "uploads",  *)
(* and serves them back by id.                                             *)
(*                                                                         *)
(* Text values (file names, paths, geotags) are sequences of one-character *)
(* strings so that sanitising, lower-casing, suffix tests and path         *)
(* formatting are computed, not assumed.                                   *)
(***************************************************************************)
EXTENDS Integers, Sequences, FiniteSets, TLC

\* ------------------------------------------------------------------ bounds
NumWorkers == 2      \* request threads of the HTTP runtime
MaxRequests == 2     \* create requests (POST) received in one behaviour
MaxClock == 1        \* seconds the wall clock can advance
MaxChunks == 2       \* write() calls one save needs for the largest payload
MaxResets == 1       \* destructive resets in one behaviour

Workers == 1..NumWorkers

\* ------------------------------------------------------------ text helpers
Max(a, b) == IF a >= b THEN a ELSE b

EndsWith(s, suf) ==
    /\ Len(s) >= Len(suf)
    /\ SubSeq(s, Len(s) - Len(suf) + 1, Len(s)) = suf

\* str.lower() on the letters the model's names use
lower(s) ==
    [i \in 1..Len(s) |->
        CASE s[i] = "A" -> "a"
          [] s[i] = "J" -> "j"
          [] s[i] = "P" -> "p"
          [] s[i] = "G" -> "g"
          [] OTHER -> s[i]]

\* str.strip("._")
RECURSIVE LStrip(_)
LStrip(s) == IF s # <<>> /\ Head(s) \in {".", "_"} THEN LStrip(Tail(s)) ELSE s
RECURSIVE RStrip(_)
RStrip(s) ==
    IF s # <<>> /\ s[Len(s)] \in {".", "_"}
    THEN RStrip(SubSeq(s, 1, Len(s) - 1)) ELSE s

\* "_".join(filename.split()): whitespace runs become one "_", leading and
\* trailing whitespace disappears
RECURSIVE JoinWords(_, _, _)
JoinWords(s, started, pending) ==
    IF s = <<>> THEN <<>>
    ELSE IF Head(s) = " " THEN JoinWords(Tail(s), started, started)
    ELSE (IF pending THEN <<"_">> ELSE <<>>) \o <<Head(s)>>
            \o JoinWords(Tail(s), TRUE, FALSE)

\* characters kept by _filename_ascii_strip_re = [^A-Za-z0-9_.-]
SafeChars == {"a", "b", "A", "j", "p", "g", "J", "P", "G", "t", "x", "f",
              "l", "v", "m", "4", "_", ".", "-"}

\* werkzeug.utils.secure_filename on ASCII input
secure_filename(raw) ==
    LET seps == [i \in 1..Len(raw) |-> IF raw[i] = "/" THEN " " ELSE raw[i]]
        joined == JoinWords(seps, FALSE, FALSE)
        kept == SelectSeq(joined, LAMBDA c : c \in SafeChars)
    IN  RStrip(LStrip(kept))

allowed_exts ==
    { <<".", "j", "p", "g">>, <<".", "j", "p", "e", "g">>,
      <<".", "p", "n", "g">>, <<".", "g", "i", "f">>,
      <<".", "b", "m", "p">>, <<".", "w", "e", "b", "p">>,
      <<".", "m", "p", "4">>, <<".", "m", "o", "v">>,
      <<".", "a", "v", "i">>, <<".", "m", "k", "v">>,
      <<".", "f", "l", "v">>, <<".", "w", "m", "v">> }

\* mutant: the extension list compared without its leading dot
AllowedName_NoDot(filename) ==
    \E e \in allowed_exts : EndsWith(lower(filename), Tail(e))

AllowedName(filename) ==
    \E e \in allowed_exts : EndsWith(lower(filename), e)

\* posixpath.splitext: the suffix from the last "." on
RECURSIVE LastDot(_, _)
LastDot(s, i) == IF i = 0 THEN 0 ELSE IF s[i] = "." THEN i ELSE LastDot(s, i - 1)
splitext(s) ==
    LET d == LastDot(s, Len(s))
    IN  IF d <= 1 THEN <<>> ELSE SubSeq(s, d, Len(s))

\* mimetypes: the table built into CPython, and the entries a system
\* mime.types file adds when one is installed
builtin_types ==
    ( <<".", "j", "p", "g">> :> "image" ) @@
    ( <<".", "j", "p", "e", "g">> :> "image" ) @@
    ( <<".", "p", "n", "g">> :> "image" ) @@
    ( <<".", "g", "i", "f">> :> "image" ) @@
    ( <<".", "b", "m", "p">> :> "image" ) @@
    ( <<".", "m", "p", "4">> :> "video" ) @@
    ( <<".", "m", "o", "v">> :> "video" ) @@
    ( <<".", "a", "v", "i">> :> "video" )
system_types ==
    ( <<".", "w", "e", "b", "p">> :> "image" ) @@
    ( <<".", "m", "k", "v">> :> "video" ) @@
    ( <<".", "f", "l", "v">> :> "video" ) @@
    ( <<".", "w", "m", "v">> :> "video" )

NoType == "none"

\* mimetypes.guess_type(path)[0], reduced to its major type
guess_type(path, known) ==
    LET ext == lower(splitext(path))
        map == IF known THEN builtin_types @@ system_types ELSE builtin_types
    IN  IF ext \in DOMAIN map THEN map[ext] ELSE NoType

UPLOAD_FOLDER == <<"uploads/">>

\* strftime("%Y%m%d%H%M%S"): one fixed-width token per second of the clock
strftime(t) == <<ToString(t)>>

\* os.path.join(UPLOAD_FOLDER, f"{timestamp}_{filename}")
FilePath(t, filename) == UPLOAD_FOLDER \o strftime(t) \o <<"_">> \o filename


\* ---------------------------------------------------------------- database
NULL == <<"<NULL>">>   \* SQL NULL, distinct from every text value used

\* EXPECTED_COLUMNS, in dict order
ColumnOrder == <<"id", "filename", "file_type", "file_path", "geotag",
                 "time_sent", "created_at">>
EXPECTED_COLUMNS == {ColumnOrder[i] : i \in 1..Len(ColumnOrder)}
NotNullCols == {"filename", "file_type", "file_path"}
NonConstDefaultCols == {"created_at"}

NoTable == [exists |-> FALSE, cols |-> {}, rows |-> <<>>, seq |-> 0]

\* CREATE TABLE IF NOT EXISTS uploads (...)
CREATE_TABLE_SQL(d) ==
    IF d.exists THEN d
    ELSE [exists |-> TRUE, cols |-> EXPECTED_COLUMNS, rows |-> <<>>, seq |-> 0]

\* ALTER TABLE uploads ADD COLUMN col coldef.  SQLite refuses a NOT NULL
\* column without default and a non-constant default when rows exist.
AlterOk(d, col) ==
    d.rows = <<>> \/ col \notin (NotNullCols \cup NonConstDefaultCols)
AddColumn(d, col) ==
    [d EXCEPT !.cols = @ \cup {col},
              !.rows = [i \in 1..Len(d.rows) |-> d.rows[i] @@ (col :> NULL)]]

\* the loop of ensure_schema over EXPECTED_COLUMNS from position i on;
\* "existing" is the column set read before the loop.  Every ALTER is
\* committed on its own, so the columns added before a failure stay.
RECURSIVE AddMissing(_, _, _)
AddMissing(d, existing, i) ==
    IF i > Len(ColumnOrder) THEN [db |-> d, ok |-> TRUE]
    ELSE LET col == ColumnOrder[i] IN
         IF col \notin existing /\ col # "id"
         THEN IF AlterOk(d, col)
              THEN AddMissing(AddColumn(d, col), existing, i + 1)
              ELSE [db |-> d, ok |-> FALSE]
         ELSE AddMissing(d, existing, i + 1)

\* mutant: the table is recreated instead of created if absent
ensure_schema_Recreate(d) ==
    LET created == CREATE_TABLE_SQL(NoTable)
    IN  AddMissing(created, created.cols, 1)

ensure_schema(d) ==
    LET created == CREATE_TABLE_SQL(d)
    IN  AddMissing(created, created.cols, 1)

\* DROP TABLE IF EXISTS uploads (which also forgets the AUTOINCREMENT
\* counter kept in sqlite_sequence), then CREATE TABLE
reset_schema(d) == [db |-> CREATE_TABLE_SQL(NoTable), ok |-> TRUE]

\* mutant: the RESET_DB test inverted
init_db_Inverted(d, reset_requested) ==
    IF ~reset_requested THEN reset_schema(d) ELSE ensure_schema(d)

init_db(d, reset_requested) ==
    IF reset_requested THEN reset_schema(d) ELSE ensure_schema(d)

RECURSIVE MaxRowId(_)
MaxRowId(rows) ==
    IF rows = <<>> THEN 0 ELSE Max(Head(rows)["id"], MaxRowId(Tail(rows)))

\* INTEGER PRIMARY KEY AUTOINCREMENT
NextId(d) == Max(d.seq, MaxRowId(d.rows)) + 1

InsertCols == {"filename", "file_type", "file_path", "geotag", "time_sent"}

\* INSERT INTO uploads (filename, file_type, file_path, geotag, time_sent)
InsertOk(d) == d.exists /\ InsertCols \subseteq d.cols
NewRow(d, vals, t) ==
    [c \in d.cols |->
        IF c = "id" THEN NextId(d)
        ELSE IF c \in DOMAIN vals THEN vals[c]
        ELSE IF c = "created_at" THEN <<ToString(t)>>
        ELSE NULL]
Insert(d, vals, t) ==
    [d EXCEPT !.rows = Append(@, NewRow(d, vals, t)), !.seq = NextId(d)]

\* SELECT file_path FROM uploads WHERE id=?  (the set of matching rows)
RowsWithId(d, id) == {i \in 1..Len(d.rows) : d.rows[i]["id"] = id}


\* ------------------------------------------------------------- file system
\* The disk is a function from the paths that exist to their bytes.
\* open(path, "wb"): create or truncate
OpenWb(dk, path) == (path :> <<>>) @@ dk

\* write one byte at offset off through a descriptor with its own offset;
\* a gap left by another writer's truncation reads as zero bytes
WriteAt(content, off, byte) ==
    [i \in 1..Max(Len(content), off + 1) |->
        IF i = off + 1 THEN byte
        ELSE IF i <= Len(content) THEN content[i] ELSE 0]

NoFiles == [q \in {} |-> <<>>]

\* os.remove(path)
Remove(dk, path) == [q \in (DOMAIN dk) \ {path} |-> dk[q]]

\* ------------------------------------------------------------------ inputs
\* a payload that one write() stores and one that needs MaxChunks of them
Payloads == { <<1>>, [i \in 1..MaxChunks |-> 2] }

RawNames ==
    { <<>>,                                          \* ""
      <<"a", ".", "J", "P", "G">>,                   \* a.JPG
      <<".", ".", "/", "a", ".", "j", "p", "g">>,    \* ../a.jpg
      <<"a", ".", "t", "x", "t">>,                   \* a.txt
      <<"a", ".", "f", "l", "v">>,                   \* a.flv
      <<".", "j", "p", "g">> }                       \* .jpg

NoFilePart == [present |-> FALSE, filename |-> <<>>, payload |-> <<>>]
FileParts ==
    {NoFilePart} \cup
    {[present |-> TRUE, filename |-> f, payload |-> b] :
        f \in RawNames, b \in Payloads}

\* request.form: a dict of the optional fields
\* (one form: geotag given, time left out)
Forms == { ("geotag" :> <<"4", "0">>) }
FormGet(form, key, default) ==
    IF key \in DOMAIN form THEN form[key] ELSE default
NotProvided == <<"Not provided">>

\* request.get_json(): null, or an object with some of the two keys
Coords == ("latitude" :> 1) @@ ("longitude" :> 2)
JsonBodies ==
    {[null |-> TRUE, obj |-> <<>>]} \cup
    {[null |-> FALSE, obj |-> [k \in ks |-> Coords[k]]] :
        ks \in SUBSET {"latitude", "longitude"}}

FileIds == 1..(MaxRequests + 1)

\* ------------------------------------------------------------------- state
VARIABLES
    up,          \* the process is running (init_db returned)
    knownfiles,  \* a system mime.types file is installed
    db,          \* uploads.db: the uploads table and its AUTOINCREMENT counter
    disk,        \* the files that exist, path -> bytes
    now,         \* wall clock, in seconds
    pc,          \* per worker: position inside upload_file
    req,         \* per worker: the upload being handled
    fd,          \* per worker: the descriptor opened by save()
    log,         \* history: every create request answered 200
    epoch,       \* history: number of destructive resets so far
    last,        \* the most recent response to a POST request
    nreq         \* create requests received so far

vars == <<up, knownfiles, db, disk, now, pc, req, fd, log, epoch, last, nreq>>

NoReq == [filename |-> <<>>, payload |-> <<>>, form |-> <<>>,
          path |-> <<>>, off |-> 0]

NoResp == [op |-> "none", status |-> 0, msg |-> "", id |-> 0]

Response(op, status, msg, id) ==
    [op |-> op, status |-> status, msg |-> msg, id |-> id]

\* a table left by an earlier deployment: some expected columns may be missing
LegacySchemas ==
    { EXPECTED_COLUMNS,
      EXPECTED_COLUMNS \ {"geotag", "created_at"},
      EXPECTED_COLUMNS \ {"file_path"} }
LegacyPath == UPLOAD_FOLDER \o <<"o", ".", "j", "p", "g">>
LegacyValues ==
    [id |-> 1, filename |-> <<"o", ".", "j", "p", "g">>, file_type |-> "image",
     file_path |-> LegacyPath, geotag |-> NotProvided,
     time_sent |-> NotProvided, created_at |-> <<"old">>]
LegacyRow(cols) == [c \in cols |-> LegacyValues[c]]
InitialDbs ==
    {NoTable} \cup
    {[exists |-> TRUE, cols |-> cs, rows |-> <<>>, seq |-> 0] :
        cs \in LegacySchemas} \cup
    {[exists |-> TRUE, cols |-> cs, rows |-> <<LegacyRow(cs)>>, seq |-> 1] :
        cs \in LegacySchemas}

Init ==
    /\ up = FALSE
    /\ knownfiles \in BOOLEAN
    /\ db \in InitialDbs
    /\ disk = IF db.rows = <<>> THEN NoFiles ELSE (LegacyPath :> <<1>>)
    /\ now = 0
    /\ pc = [w \in Workers |-> "idle"]
    /\ req = [w \in Workers |-> NoReq]
    /\ fd = [w \in Workers |-> "closed"]
    /\ log = <<>>
    /\ epoch = 0
    /\ last = NoResp
    /\ nreq = 0


\* ------------------------------------------------------------ process life
\* module load: init_db() with RESET_DB read from the environment; the
\* process serves requests only if init_db returned
InitDb(reset_requested) ==
    /\ ~up
    /\ reset_requested => epoch < MaxResets
    /\ LET r == init_db(db, reset_requested) IN
         /\ db' = r.db
         /\ up' = r.ok
    /\ epoch' = IF reset_requested THEN epoch + 1 ELSE epoch
    /\ UNCHANGED <<knownfiles, disk, now, pc, req, fd, log, last, nreq>>

\* the process is stopped or killed; requests in flight get no response
\* and their descriptors are closed
Stop ==
    /\ up
    /\ up' = FALSE
    /\ pc' = [w \in Workers |-> "idle"]
    /\ req' = [w \in Workers |-> NoReq]
    /\ fd' = [w \in Workers |-> "closed"]
    /\ UNCHANGED <<knownfiles, db, disk, now, log, epoch, last, nreq>>

Tick ==
    /\ now < MaxClock
    /\ now' = now + 1
    /\ UNCHANGED <<up, knownfiles, db, disk, pc, req, fd, log, epoch, last, nreq>>

\* ------------------------------------------------------------ POST /upload
\* lines 88-107: the checks, the sanitised name, the timestamped path
UploadBegin(w, part, form) ==
    /\ up /\ pc[w] = "idle" /\ nreq < MaxRequests
    /\ nreq' = nreq + 1
    /\ LET filename == secure_filename(part.filename)
       IN
       IF ~part.present
       THEN /\ last' = Response("upload", 400, "No file found in request", 0)
            /\ UNCHANGED <<pc, req>>
       ELSE IF part.filename = <<>>
       THEN /\ last' = Response("upload", 400, "No selected file", 0)
            /\ UNCHANGED <<pc, req>>
       ELSE IF ~AllowedName(filename)
       THEN /\ last' = Response("upload", 400, "File type not allowed", 0)
            /\ UNCHANGED <<pc, req>>
       ELSE /\ pc' = [pc EXCEPT ![w] = "open"]
            /\ req' = [req EXCEPT ![w] =
                         [filename |-> filename, payload |-> part.payload,
                          form |-> form, path |-> FilePath(now, filename),
                          off |-> 0]]
            /\ UNCHANGED last
    /\ UNCHANGED <<up, knownfiles, db, disk, now, fd, log, epoch>>

\* line 108, uploaded_file.save(file_path): open(dst, "wb")
SaveOpen(w) ==
    /\ up /\ pc[w] = "open"
    /\ disk' = OpenWb(disk, req[w].path)
    /\ fd' = [fd EXCEPT ![w] = "live"]
    /\ pc' = [pc EXCEPT ![w] = "write"]
    /\ UNCHANGED <<up, knownfiles, db, now, req, log, epoch, last, nreq>>

\* line 108, save(): one write() of the copy loop; the last one is followed
\* by close().  A descriptor whose file was unlinked writes to no path.
SaveWrite(w) ==
    /\ up /\ pc[w] = "write"
    /\ LET r == req[w]
           done == r.off + 1 = Len(r.payload)
       IN
       /\ disk' = IF fd[w] = "live"
                  THEN [disk EXCEPT ![r.path] = WriteAt(@, r.off, r.payload[r.off + 1])]
                  ELSE disk
       /\ req' = [req EXCEPT ![w].off = r.off + 1]
       /\ fd' = IF done THEN [fd EXCEPT ![w] = "closed"] ELSE fd
       /\ pc' = IF done THEN [pc EXCEPT ![w] = "finish"] ELSE pc
    /\ UNCHANGED <<up, knownfiles, db, now, log, epoch, last, nreq>>

\* lines 110-145: the MIME check, then either the removal of the file or
\* the insert and the 200 response
UploadFinish(w) ==
    /\ up /\ pc[w] = "finish"
    /\ LET r == req[w]
           file_type == guess_type(r.path, knownfiles)
           vals == [filename |-> r.filename, file_type |-> file_type,
                    file_path |-> r.path,
                    geotag |-> FormGet(r.form, "geotag", NotProvided),
                    time_sent |-> FormGet(r.form, "time", NotProvided)]
       IN
       IF file_type = NoType
       THEN IF r.path \in DOMAIN disk
            THEN /\ disk' = Remove(disk, r.path)
                 /\ fd' = [v \in Workers |->
                             IF fd[v] = "live" /\ req[v].path = r.path
                             THEN "orphan" ELSE fd[v]]
                 /\ last' = Response("upload", 400, "Invalid file type", 0)
                 /\ UNCHANGED <<db, log>>
            ELSE \* os.remove raises FileNotFoundError: unhandled, Flask answers 500
                 /\ last' = Response("upload", 500, "FileNotFoundError", 0)
                 /\ UNCHANGED <<db, disk, fd, log>>
       ELSE IF InsertOk(db)
            THEN /\ db' = Insert(db, vals, now)
                 /\ log' = Append(log, [id |-> NextId(db), op |-> "upload",
                                        row |-> NewRow(db, vals, now),
                                        payload |-> r.payload, epoch |-> epoch])
                 /\ last' = Response("upload", 200, "uploaded successfully", NextId(db))
                 /\ UNCHANGED <<disk, fd>>
            ELSE \* sqlite3.OperationalError: unhandled, Flask answers 500
                 /\ last' = Response("upload", 500, "OperationalError", 0)
                 /\ UNCHANGED <<db, disk, fd, log>>
    /\ pc' = [pc EXCEPT ![w] = "idle"]
    /\ req' = [req EXCEPT ![w] = NoReq]
    /\ UNCHANGED <<up, knownfiles, now, epoch, nreq>>

\* ---------------------------------------------------------- POST /location
isoformat(t) == <<"T", ToString(t)>>
\* mutant: the coordinates formatted in the wrong order
Geotag_Swapped(latitude, longitude) == <<ToString(longitude), ",", ToString(latitude)>>
Geotag(latitude, longitude) == <<ToString(latitude), ",", ToString(longitude)>>
LocationPath == <<"N", "/", "A">>
LocationName == <<"l", "o", "c", "a", "t", "i", "o", "n">>

save_location(body) ==
    /\ up /\ nreq < MaxRequests
    /\ nreq' = nreq + 1
    /\ IF body.null \/ body.obj = <<>> \/ "latitude" \notin DOMAIN body.obj
          \/ "longitude" \notin DOMAIN body.obj
       THEN /\ last' = Response("location", 400, "Latitude and longitude required", 0)
            /\ UNCHANGED <<db, log>>
       ELSE LET vals == [filename |-> LocationName, file_type |-> "location",
                         file_path |-> LocationPath,
                         geotag |-> Geotag(body.obj["latitude"], body.obj["longitude"]),
                         time_sent |-> isoformat(now)]
            IN IF InsertOk(db)
               THEN /\ db' = Insert(db, vals, now)
                    /\ log' = Append(log, [id |-> NextId(db), op |-> "location",
                                           row |-> NewRow(db, vals, now),
                                           payload |-> <<>>, epoch |-> epoch])
                    /\ last' = Response("location", 200, "Location saved successfully", NextId(db))
               ELSE /\ last' = Response("location", 500, "OperationalError", 0)
                    /\ UNCHANGED <<db, log>>
    /\ UNCHANGED <<up, knownfiles, disk, now, pc, req, fd, epoch>>

\* ------------------------------------------------------------- GET /uploads
FileUrl(id) == <<"file/", ToString(id)>>
ListCols == {"id", "filename", "file_type", "geotag", "time_sent", "created_at"}

\* mutant: the listing leaves out the location rows
uploads_list_FilesOnly(d) ==
    LET files == SelectSeq(d.rows, LAMBDA row : row["file_type"] # "location")
    IN  [i \in 1..Len(files) |->
            [c \in ListCols |-> files[i][c]] @@ ("file_url" :> FileUrl(files[i]["id"]))]

\* the response of get_uploads in database state d
uploads_list(d) ==
    [i \in 1..Len(d.rows) |->
        [c \in ListCols |-> d.rows[i][c]] @@ ("file_url" :> FileUrl(d.rows[i]["id"]))]
get_uploads_response(d) ==
    IF d.exists /\ ListCols \subseteq d.cols
    THEN [status |-> 200, msg |-> "", data |-> uploads_list(d)]
    ELSE [status |-> 500, msg |-> "OperationalError", data |-> <<>>]

\* read-only: the handler answers get_uploads_response(db) and changes nothing
get_uploads ==
    /\ up
    /\ get_uploads_response(db).status \in {200, 500}
    /\ UNCHANGED vars

\* ----------------------------------------------------------- GET /file/<id>
\* mutant: no os.path.exists test, send_file raises and the handler answers 500
get_file_response_NoExistsTest(d, dk, file_id) ==
    IF ~(d.exists /\ "file_path" \in d.cols)
    THEN [status |-> 500, msg |-> "no such table or column", data |-> <<>>]
    ELSE LET m == RowsWithId(d, file_id) IN
         IF m = {}
         THEN [status |-> 404, msg |-> "file not found with id", data |-> <<>>]
         ELSE LET file_path == d.rows[CHOOSE i \in m : TRUE]["file_path"] IN
              IF file_path \notin DOMAIN dk
              THEN [status |-> 500, msg |-> "FileNotFoundError", data |-> <<>>]
              ELSE [status |-> 200, msg |-> "", data |-> dk[file_path]]

\* the response of get_file(file_id) in database state d and disk dk
get_file_response(d, dk, file_id) ==
    IF ~(d.exists /\ "file_path" \in d.cols)
    THEN [status |-> 500, msg |-> "no such table or column", data |-> <<>>]
    ELSE LET m == RowsWithId(d, file_id) IN
         IF m = {}
         THEN [status |-> 404, msg |-> "file not found with id", data |-> <<>>]
         ELSE LET file_path == d.rows[CHOOSE i \in m : TRUE]["file_path"] IN
              IF file_path \notin DOMAIN dk
              THEN [status |-> 404, msg |-> "File not found on server", data |-> <<>>]
              ELSE [status |-> 200, msg |-> "", data |-> dk[file_path]]

\* read-only: the handler answers get_file_response(db, disk, file_id)
get_file(file_id) ==
    /\ up
    /\ get_file_response(db, disk, file_id).status \in {200, 404, 500}
    /\ UNCHANGED vars

\* ----------------------------------------------------------- specification
Requests ==
    \/ \E w \in Workers, part \in FileParts, form \in Forms : UploadBegin(w, part, form)
    \/ \E w \in Workers : SaveOpen(w)
    \/ \E w \in Workers : SaveWrite(w)
    \/ \E w \in Workers : UploadFinish(w)
    \/ \E body \in JsonBodies : save_location(body)
    \/ get_uploads
    \/ \E file_id \in FileIds : get_file(file_id)

Next ==
    \/ \E reset_requested \in BOOLEAN : InitDb(reset_requested)
    \/ Stop
    \/ Tick
    \/ Requests

Spec == Init /\ [][Next]_vars

\* the service without an operator-requested destructive reset
NextServe ==
    \/ InitDb(FALSE)
    \/ Stop
    \/ Tick
    \/ Requests

SpecServe == Init /\ [][NextServe]_vars


\* ------------------------------------------------------------------ claims
ImageOrVideo(row) == row["file_type"] \in {"image", "video"}
Listed == get_uploads_response(db).data
Uploaded == {i \in DOMAIN log : log[i].op = "upload"}
OpenForWrite(path) == \E w \in Workers : fd[w] = "live" /\ req[w].path = path

\* C1: every upload answered 200 with id i and payload B is served back by
\* GET /file/i as exactly B, whatever requests were handled since.
C1_RoundTrip ==
    up => \A i \in Uploaded :
            LET r == get_file_response(db, disk, log[i].id)
            IN  r.status = 200 /\ r.data = log[i].payload

\* C2: GET /uploads answers 200 and lists the record of every create request
\* answered 200 exactly once.
C2_ListedExactlyOnce ==
    up => /\ get_uploads_response(db).status = 200
          /\ \A i \in DOMAIN log :
                /\ Cardinality({k \in DOMAIN Listed : Listed[k]["id"] = log[i].id}) = 1
                /\ \A k \in DOMAIN Listed :
                      Listed[k]["id"] = log[i].id =>
                         \A c \in ListCols : Listed[k][c] = log[i].row[c]

C2_Witness ==
    /\ up
    /\ Len(log) = 2
    /\ log[1].op = "upload" /\ log[2].op = "location"
    /\ Len(Listed) = 2

\* the id a file_url names
Resolve(url) == CHOOSE id \in 0..(MaxRequests + 2) : FileUrl(id) = url

\* C3: the file_url of every record GET /uploads lists resolves: GET /file/id
\* of the listed id answers 200.
C3_ListedResolves ==
    up => \A k \in DOMAIN Listed :
            get_file_response(db, disk, Resolve(Listed[k]["file_url"])).status = 200

\* the claim's own reading of "ends, case-insensitively, in an allowed extension"
ClaimExts == {"jpg", "jpeg", "png", "gif", "bmp", "webp",
              "mp4", "mov", "avi", "mkv", "flv", "wmv"}
RECURSIVE Flat(_)
Flat(s) == IF s = <<>> THEN "" ELSE Head(s) \o Flat(Tail(s))
ClaimAllowed(name) ==
    \E n \in 1..Len(name) :
        /\ name[n] = "."
        /\ Flat(lower(SubSeq(name, n + 1, Len(name)))) \in ClaimExts

\* C4: an upload whose sanitised name has no allowed extension is answered
\* 400 and changes neither the table nor the files on disk.
C4_RejectLeavesState ==
    [][\A w \in Workers, part \in FileParts, form \in Forms :
          ( /\ UploadBegin(w, part, form)
            /\ part.present
            /\ ~ClaimAllowed(secure_filename(part.filename)) )
          => /\ last'.op = "upload" /\ last'.status = 400
             /\ db' = db /\ disk' = disk
             /\ pc'[w] = "idle"]_vars

C4_Witness ==
    /\ last.op = "upload" /\ last.status = 400
    /\ last.msg = "File type not allowed"
    /\ db.rows # <<>>
    /\ DOMAIN disk # {}

BothCoordinates(body) ==
    ~body.null /\ {"latitude", "longitude"} \subseteq DOMAIN body.obj

\* C5: POST /location inserts a row iff the body has latitude and longitude:
\* otherwise 400 and the table is unchanged; with both, exactly one row is
\* appended, of type "location", path "N/A", geotag "{latitude},{longitude}",
\* and the response carries that row's id.
C5_LocationInsertsIff ==
    [][\A body \in JsonBodies :
          save_location(body) =>
            IF BothCoordinates(body)
            THEN /\ Len(db'.rows) = Len(db.rows) + 1
                 /\ SubSeq(db'.rows, 1, Len(db.rows)) = db.rows
                 /\ LET row == db'.rows[Len(db'.rows)] IN
                      /\ row["file_type"] = "location"
                      /\ row["file_path"] = <<"N", "/", "A">>
                      /\ row["geotag"] = <<ToString(body.obj["latitude"]), ",",
                                           ToString(body.obj["longitude"])>>
                      /\ last'.status = 200 /\ last'.id = row["id"]
                      /\ \A i \in 1..Len(db.rows) : db.rows[i]["id"] # row["id"]
            ELSE /\ last'.status = 400
                 /\ db' = db]_vars

C5_Witness ==
    /\ last.op = "location" /\ last.status = 200
    /\ \E i \in DOMAIN db.rows :
          /\ db.rows[i]["id"] = last.id
          /\ db.rows[i]["file_type"] = "location"
          /\ db.rows[i]["geotag"] = <<"1", ",", "2">>

\* C6: init_db without the reset flag on an existing table keeps every row
\* and every existing column value; with the flag it leaves the table
\* existing and empty.
C6_InitDbFrame ==
    [][\A reset_requested \in BOOLEAN :
          InitDb(reset_requested) =>
            IF reset_requested
            THEN db'.exists /\ db'.rows = <<>>
            ELSE db.exists =>
                   /\ db'.exists
                   /\ db.cols \subseteq db'.cols
                   /\ Len(db'.rows) = Len(db.rows)
                   /\ \A i \in 1..Len(db.rows) : \A c \in db.cols :
                         db'.rows[i][c] = db.rows[i][c]]_vars

\* a populated table that a non-destructive start has widened by a column
C6_Witness ==
    /\ db.exists /\ db.rows # <<>>
    /\ epoch = 0
    /\ "geotag" \in db.cols
    /\ db.rows[1]["geotag"] = NULL
    /\ db.rows[1]["filename"] = LegacyValues["filename"]

\* C7: in every reachable state every image or video row names a file that
\* is on disk and whose write has completed.
C7_NoPartialRecord ==
    \A i \in DOMAIN db.rows :
        ("file_type" \in db.cols /\ "file_path" \in db.cols /\ ImageOrVideo(db.rows[i]))
        => /\ db.rows[i]["file_path"] \in DOMAIN disk
           /\ ~OpenForWrite(db.rows[i]["file_path"])

\* C8 (as claimed): no id is returned by two successful create requests, and
\* an id once returned never denotes a different record, across restarts
\* with or without the reset flag.
C8_IdsUniqueAcrossResets ==
    /\ \A i, j \in DOMAIN log : i # j => log[i].id # log[j].id
    /\ \A i \in DOMAIN log : \A k \in RowsWithId(db, log[i].id) :
          db.rows[k] = log[i].row

\* C8 (amended): the same, within one lifetime of the table: among the
\* creates since the last destructive reset ids are pairwise distinct and
\* each id denotes exactly the record created with it.
C8_IdsUniquePerTable ==
    /\ \A i, j \in DOMAIN log :
          (i # j /\ log[i].epoch = log[j].epoch) => log[i].id # log[j].id
    /\ \A i \in DOMAIN log :
          log[i].epoch = epoch =>
             /\ RowsWithId(db, log[i].id) # {}
             /\ \A k \in RowsWithId(db, log[i].id) : db.rows[k] = log[i].row

\* two creates in one table lifetime, the process restarted since
C8_Witness ==
    /\ ~up
    /\ Len(log) = 2
    /\ log[1].epoch = epoch /\ log[2].epoch = epoch
    /\ log[1].id # log[2].id

\* C9: GET /file/id answers 404 when no row has the id, a 404 with another
\* message when the row's path names no file, and 200 only when both exist.
C9_FileNotFound ==
    up => \A id \in FileIds \cup {0} :
            LET r == get_file_response(db, disk, id)
                hasRow == \E i \in DOMAIN db.rows : db.rows[i]["id"] = id
                hasFile == \E i \in DOMAIN db.rows :
                              /\ db.rows[i]["id"] = id
                              /\ db.rows[i]["file_path"] \in DOMAIN disk
            IN  /\ ~hasRow => (r.status = 404 /\ r.msg = "file not found with id")
                /\ (hasRow /\ ~hasFile) => (r.status = 404 /\ r.msg # "file not found with id")
                /\ r.status = 200 <=> (hasRow /\ hasFile)

\* a row whose file is missing next to a row whose file exists
C9_Witness ==
    /\ up
    /\ \E i \in DOMAIN db.rows : db.rows[i]["file_path"] \notin DOMAIN disk
    /\ \E i \in DOMAIN db.rows : db.rows[i]["file_path"] \in DOMAIN disk

\* C10: an upload that passed the extension check but whose MIME type does
\* not resolve removes the file it wrote, answers 400 and nothing else,
\* inserts no row and removes no file that a row references.
C10_InvalidTypeRemoved ==
    [][\A w \in Workers :
          (UploadFinish(w) /\ guess_type(req[w].path, knownfiles) = NoType)
          => /\ last'.status = 400
             /\ db' = db
             /\ req[w].path \notin DOMAIN disk'
             /\ \A i \in DOMAIN db.rows :
                   db.rows[i]["file_path"] \in DOMAIN disk
                   => db.rows[i]["file_path"] \in DOMAIN disk']_vars

====
